---- MODULE Spec2Model ----
(***************************************************************************)
(* Model of internal/juju/contraints.go: the ConstraintsType attribute     *)
(* type and the ConstraintsValue attribute value of the Juju provider.     *)
(*                                                                         *)
(* Text is a sequence of symbols.  A symbol is one character ("=", " ",    *)
(* a digit, a quote, ...) or one constraint name ("cores", "mem", "foo"),  *)
(* which stands for the run of letters that spells it.                     *)
(***************************************************************************)
EXTENDS Integers, Sequences, FiniteSets, TLC

VARIABLES op, arg, recv, ret, parsed

vars == <<op, arg, recv, ret, parsed>>

\* Largest number of space separated words in an input string.
MaxWords == 2

-----------------------------------------------------------------------------
(* Text helpers *)

Digits == <<"0", "1", "2", "3", "4", "5", "6", "7", "8", "9">>

IsDigit(c) == \E i \in 1..10 : Digits[i] = c

DigitVal(c) == (CHOOSE i \in 1..10 : Digits[i] = c) - 1

RECURSIVE Join(_)
Join(ws) ==
    IF Len(ws) = 0 THEN <<>>
    ELSE IF Len(ws) = 1 THEN ws[1]
    ELSE ws[1] \o <<" ">> \o Join(Tail(ws))

RECURSIVE TrimLeft(_)
TrimLeft(s) == IF Len(s) > 0 /\ s[1] = " " THEN TrimLeft(Tail(s)) ELSE s

RECURSIVE TrimRight(_)
TrimRight(s) ==
    IF Len(s) > 0 /\ s[Len(s)] = " " THEN TrimRight(SubSeq(s, 1, Len(s) - 1)) ELSE s

\* strings.TrimSpace
TrimSpace(s) == TrimRight(TrimLeft(s))

\* strings.Index(s, c): 0-based position of the first c, -1 when absent.
Index(s, c) ==
    IF \E i \in 1..Len(s) : s[i] = c
    THEN (CHOOSE i \in 1..Len(s) : s[i] = c /\ \A j \in 1..(i - 1) : s[j] # c) - 1
    ELSE -1

\* strings.Split(s, " "): the fields between single spaces, empty ones kept.
RECURSIVE Split(_)
Split(s) ==
    LET i == Index(s, " ") IN
    IF i < 0 THEN <<s>>
    ELSE <<SubSeq(s, 1, i)>> \o Split(SubSeq(s, i + 2, Len(s)))

\* strconv.FormatUint(n, 10)
RECURSIVE FormatUint(_)
FormatUint(n) ==
    IF n < 10 THEN <<Digits[n + 1]>>
    ELSE FormatUint(n \div 10) \o <<Digits[(n % 10) + 1]>>

RECURSIVE DecimalVal(_)
DecimalVal(s) ==
    IF Len(s) = 0 THEN 0
    ELSE 10 * DecimalVal(SubSeq(s, 1, Len(s) - 1)) + DigitVal(s[Len(s)])

AllDigits(s) == Len(s) > 0 /\ \A i \in 1..Len(s) : IsDigit(s[i])

\* fmt.Sprintf("%q", s): double quotes around s, quote and backslash escaped.
RECURSIVE Escape(_)
Escape(s) ==
    IF Len(s) = 0 THEN <<>>
    ELSE (IF s[1] \in {"\"", "\\"} THEN <<"\\", s[1]>> ELSE <<s[1]>>) \o Escape(Tail(s))

Quote(s) == <<"\"">> \o Escape(s) \o <<"\"">>

-----------------------------------------------------------------------------
(* github.com/juju/juju/core/constraints, restricted to cores and mem *)

\* A *uint64 field: <<>> is the nil pointer, <<n>> points at n.
NilPtr == <<>>

\* constraints.Value{}
EmptyValue == [cores |-> NilPtr, mem |-> NilPtr]

\* parseUint64
parseUint64(str) ==
    IF Len(str) = 0 THEN [err |-> FALSE, val |-> 0]
    ELSE IF AllDigits(str) THEN [err |-> FALSE, val |-> DecimalVal(str)]
    ELSE [err |-> TRUE, val |-> 0]

\* mbSuffixes
Mult(c) == IF c = "M" THEN 1 ELSE IF c = "G" THEN 1024
           ELSE IF c = "T" THEN 1024 * 1024 ELSE 1024 * 1024 * 1024

\* parseSize: a non-negative number with an optional M/G/T/P suffix.
parseSize(str) ==
    IF Len(str) = 0 THEN [err |-> FALSE, val |-> 0]
    ELSE
      LET suf  == str[Len(str)] \in {"M", "G", "T", "P"}
          num  == IF suf THEN SubSeq(str, 1, Len(str) - 1) ELSE str
          mult == IF suf THEN Mult(str[Len(str)]) ELSE 1
          neg  == Len(num) > 0 /\ num[1] = "-"
          mag  == IF neg THEN Tail(num) ELSE num
      IN IF ~AllDigits(mag) THEN [err |-> TRUE, val |-> 0]
         ELSE IF neg /\ DecimalVal(mag) > 0 THEN [err |-> TRUE, val |-> 0]
         ELSE [err |-> FALSE, val |-> DecimalVal(mag) * mult]

\* Value.setRaw: one name=value pair applied to cons.
setRaw(cons, name, val) ==
    IF name = <<"cores">> THEN
        IF cons.cores # NilPtr THEN [err |-> TRUE, cons |-> EmptyValue]
        ELSE LET r == parseUint64(val) IN
             IF r.err THEN [err |-> TRUE, cons |-> EmptyValue]
             ELSE [err |-> FALSE, cons |-> [cons EXCEPT !.cores = <<r.val>>]]
    ELSE IF name = <<"mem">> THEN
        IF cons.mem # NilPtr THEN [err |-> TRUE, cons |-> EmptyValue]
        ELSE LET r == parseSize(val) IN
             IF r.err THEN [err |-> TRUE, cons |-> EmptyValue]
             ELSE [err |-> FALSE, cons |-> [cons EXCEPT !.mem = <<r.val>>]]
    ELSE [err |-> TRUE, cons |-> EmptyValue]

RECURSIVE ParseRaws(_, _)
ParseRaws(raws, cons) ==
    IF Len(raws) = 0 THEN [err |-> FALSE, cons |-> cons]
    ELSE IF Len(raws[1]) = 0 THEN ParseRaws(Tail(raws), cons)
    ELSE LET raw == raws[1]
             eq  == Index(raw, "=")
         IN IF eq <= 0 THEN [err |-> TRUE, cons |-> EmptyValue]
            ELSE LET r == setRaw(cons, SubSeq(raw, 1, eq), SubSeq(raw, eq + 2, Len(raw)))
                 IN IF r.err THEN r ELSE ParseRaws(Tail(raws), r.cons)

\* constraints.Parse
Parse(text) == ParseRaws(Split(TrimSpace(text)), EmptyValue)

\* uintStr
uintStr(n) == IF n = 0 THEN <<>> ELSE FormatUint(n)

\* constraints.Value.String
ValueString(c) ==
    LET cs == IF c.cores = NilPtr THEN <<>> ELSE <<<<"cores", "=">> \o uintStr(c.cores[1])>>
        s  == IF c.mem = NilPtr THEN <<>> ELSE uintStr(c.mem[1])
        ms == IF c.mem = NilPtr THEN <<>>
              ELSE <<<<"mem", "=">> \o (IF Len(s) = 0 THEN s ELSE s \o <<"M">>)>>
    IN Join(cs \o ms)

-----------------------------------------------------------------------------
(* terraform-plugin-go tftypes.Value and terraform-plugin-framework basetypes *)

\* The absent attr.Value (a nil interface).
Nil == [kind |-> "nil"]

\* basetypes.NewStringValue / NewStringNull / NewStringUnknown
NewStringValue(s) == [kind |-> "StringValue", state |-> "known", value |-> s]

NewStringNull == [kind |-> "StringValue", state |-> "null", value |-> <<>>]

NewStringUnknown == [kind |-> "StringValue", state |-> "unknown", value |-> <<>>]

\* basetypes.StringValue.String: the human readable form, quoted when known.
StringValueString(sv) ==
    IF sv.state = "unknown" THEN <<"<unknown>">>
    ELSE IF sv.state = "null" THEN <<"<null>">>
    ELSE Quote(sv.value)

\* tftypes.Value.String of a known value of type tftypes.String.
TfValueString(in) == <<"tftypes.String", "<", "\"">> \o in.value \o <<"\"", ">">>

\* tftypes.Value.As(&string): fails unless the value has type tftypes.String.
AsString(in) == [err |-> in.typ # "String", str |-> in.value]

\* basetypes.StringType.ValueFromTerraform
StringTypeValueFromTerraform(in) ==
    IF in.state = "unknown" THEN [err |-> FALSE, value |-> NewStringUnknown]
    ELSE IF in.state = "null" THEN [err |-> FALSE, value |-> NewStringNull]
    ELSE LET a == AsString(in) IN
         IF a.err THEN [err |-> TRUE, value |-> Nil]
         ELSE [err |-> FALSE, value |-> NewStringValue(a.str)]

\* basetypes.StringType{} and its Equal
StringType == [kind |-> "StringType"]

StringTypeEqual(t, o) == o.kind = "StringType"

\* diag.NewErrorDiagnostic / Diagnostics.AddError / AddAttributeError
ErrorDiagnostic(summary) == [severity |-> "error", summary |-> summary, path |-> FALSE]

AttributeErrorDiagnostic(summary) == [severity |-> "error", summary |-> summary, path |-> TRUE]

\* diag.Diagnostics.HasError
HasError(diags) == \E i \in 1..Len(diags) : diags[i].severity = "error"

-----------------------------------------------------------------------------
(* internal/juju/contraints.go *)

\* ConstraintsType{}
ConstraintsType == [kind |-> "ConstraintsType", StringType |-> StringType]

\* ConstraintsType.Equal comparing the embedded StringType with the operand
\* itself instead of with the operand's embedded StringType.
TypeEqual_Embedded(t, o) == StringTypeEqual(t.StringType, o)

\* ConstraintsType.Equal
TypeEqual(t, o) ==
    IF o.kind # "ConstraintsType" THEN FALSE
    ELSE StringTypeEqual(t.StringType, o.StringType)

\* ConstraintsType.String
TypeString(t) == <<"ConstraintsType">>

ConstraintsNull ==
    [kind |-> "ConstraintsValue", StringValue |-> NewStringNull, Constraints |-> EmptyValue]

ConstraintsUnknown ==
    [kind |-> "ConstraintsValue", StringValue |-> NewStringUnknown, Constraints |-> EmptyValue]

\* ConstraintsType.ValueType: ConstraintsValue{}, whose zero StringValue is null.
ValueType ==
    [kind |-> "ConstraintsValue",
     StringValue |-> [kind |-> "StringValue", state |-> "null", value |-> <<>>],
     Constraints |-> EmptyValue]

\* GetConstraintsValue without the early return on a parse error.
GetConstraintsValue_NoReturn(value) ==
    LET r == Parse(value) IN
    [value |-> [kind |-> "ConstraintsValue",
                StringValue |-> NewStringValue(value),
                Constraints |-> r.cons],
     diags |-> IF r.err THEN <<ErrorDiagnostic("Invalid Constraints Format")>> ELSE <<>>,
     parsed |-> <<value>>]

GetConstraintsValue(value) ==
    LET r == Parse(value) IN
    IF r.err
    THEN [value |-> ConstraintsUnknown,
          diags |-> <<ErrorDiagnostic("Invalid Constraints Format")>>,
          parsed |-> <<value>>]
    ELSE [value |-> [kind |-> "ConstraintsValue",
                     StringValue |-> NewStringValue(value),
                     Constraints |-> r.cons],
          diags |-> <<>>,
          parsed |-> <<value>>]

\* ConstraintsType.ValueFromString without the IsNull check.
ValueFromString_NoNullCheck(in) ==
    IF in.state = "unknown"
    THEN [value |-> ConstraintsUnknown, diags |-> <<>>, parsed |-> <<>>]
    ELSE LET text == StringValueString(in)
             r    == Parse(text)
         IN IF r.err
            THEN [value |-> Nil,
                  diags |-> <<ErrorDiagnostic("invalid constraints format")>>,
                  parsed |-> <<text>>]
            ELSE [value |-> [kind |-> "ConstraintsValue",
                             StringValue |-> NewStringValue(ValueString(r.cons)),
                             Constraints |-> r.cons],
                  diags |-> <<>>,
                  parsed |-> <<text>>]

\* ConstraintsType.ValueFromString
ValueFromString(in) ==
    IF in.state = "null" THEN [value |-> ConstraintsNull, diags |-> <<>>, parsed |-> <<>>]
    ELSE IF in.state = "unknown"
    THEN [value |-> ConstraintsUnknown, diags |-> <<>>, parsed |-> <<>>]
    ELSE LET text == StringValueString(in)
             r    == Parse(text)
         IN IF r.err
            THEN [value |-> Nil,
                  diags |-> <<ErrorDiagnostic("invalid constraints format")>>,
                  parsed |-> <<text>>]
            ELSE [value |-> [kind |-> "ConstraintsValue",
                             StringValue |-> NewStringValue(ValueString(r.cons)),
                             Constraints |-> r.cons],
                  diags |-> <<>>,
                  parsed |-> <<text>>]

\* ConstraintsType.ValueFromTerraform without the diags.HasError check.
ValueFromTerraform_IgnoresDiags(in) ==
    LET a == StringTypeValueFromTerraform(in) IN
    IF a.err THEN [value |-> Nil, err |-> TRUE, parsed |-> <<>>]
    ELSE IF a.value.kind # "StringValue" THEN [value |-> Nil, err |-> TRUE, parsed |-> <<>>]
    ELSE LET r == ValueFromString(a.value) IN
         [value |-> r.value, err |-> FALSE, parsed |-> r.parsed]

\* ConstraintsType.ValueFromTerraform
ValueFromTerraform(in) ==
    LET a == StringTypeValueFromTerraform(in) IN
    IF a.err THEN [value |-> Nil, err |-> TRUE, parsed |-> <<>>]
    ELSE IF a.value.kind # "StringValue" THEN [value |-> Nil, err |-> TRUE, parsed |-> <<>>]
    ELSE LET r == ValueFromString(a.value) IN
         IF HasError(r.diags) THEN [value |-> Nil, err |-> TRUE, parsed |-> r.parsed]
         ELSE [value |-> r.value, err |-> FALSE, parsed |-> r.parsed]

\* ConstraintsType.Validate adding no diagnostic when the parse fails.
Validate_NoParseError(in) ==
    IF in.state # "known" THEN [diags |-> <<>>, parsed |-> <<>>]
    ELSE IF AsString(in).err
    THEN [diags |-> <<AttributeErrorDiagnostic("Constraints Type Validation Error")>>,
          parsed |-> <<>>]
    ELSE [diags |-> <<>>, parsed |-> <<TfValueString(in)>>]

\* ConstraintsType.Validate
Validate(in) ==
    IF in.state # "known" THEN [diags |-> <<>>, parsed |-> <<>>]
    ELSE IF AsString(in).err
    THEN [diags |-> <<AttributeErrorDiagnostic("Constraints Type Validation Error")>>,
          parsed |-> <<>>]
    ELSE LET text == TfValueString(in) IN
         IF Parse(text).err
         THEN [diags |-> <<AttributeErrorDiagnostic("Constraints Type Validation Error")>>,
               parsed |-> <<text>>]
         ELSE [diags |-> <<>>, parsed |-> <<text>>]

\* ConstraintsValue.String
String(t) == ValueString(t.Constraints)

\* ConstraintsValue.Type
Type(v) == ConstraintsType

\* ConstraintsValue.Equal.  When the assertion o.(ConstraintsValue) fails,
\* other is the zero ConstraintsValue, and that is what other.String() renders.
Equal(t, o) ==
    LET ok    == o.kind = "ConstraintsValue"
        other == IF ok THEN o ELSE ValueType
    IN IF ~ok
       THEN IF o.kind # "StringValue" THEN [bool |-> FALSE, parsed |-> <<>>]
            ELSE LET text == String(other)
                     r    == Parse(text)
                 IN IF r.err THEN [bool |-> FALSE, parsed |-> <<text>>]
                    ELSE [bool |-> t.Constraints = r.cons, parsed |-> <<text>>]
       ELSE [bool |-> t.Constraints = other.Constraints, parsed |-> <<>>]

-----------------------------------------------------------------------------
(* Inputs *)

\* The words an input string is made of: valid fields in two spellings, a
\* negative quantity, an unrecognised field name and the empty word (which
\* yields leading, trailing and doubled spaces).
Words ==
    { <<"cores", "=", "2">>, <<"cores", "=", "4">>,
      <<"mem", "=", "4", "G">>, <<"mem", "=", "4", "0", "9", "6", "M">>,
      <<"mem", "=", "-", "1">>, <<"foo", "=", "1">>, <<>> }

WordSeqs == UNION { [1..n -> Words] : n \in 0..MaxWords }

\* Every string of at most MaxWords words separated by single spaces.
Inputs == { Join(ws) : ws \in WordSeqs }

\* The basetypes.StringValue values handed to ValueFromString and Equal.
StringValues == { NewStringValue(s) : s \in Inputs } \cup {NewStringNull, NewStringUnknown}

\* The tftypes.Value wire values: strings, and numbers as the other shape.
WireValues ==
    { [typ |-> "String", state |-> "known", value |-> s] : s \in Inputs }
    \cup { [typ |-> t, state |-> st, value |-> <<>>] :
             t \in {"String", "Number"}, st \in {"null", "unknown"} }
    \cup { [typ |-> "Number", state |-> "known", value |-> <<"2">>] }

\* An attr.Value that is neither a ConstraintsValue nor a StringValue.
BoolValue == [kind |-> "BoolValue"]

\* Every ConstraintsValue a constructor of this file returns.
ConstraintsValues ==
    { GetConstraintsValue(s).value : s \in Inputs }
    \cup ({ ValueFromString(sv).value : sv \in StringValues } \ {Nil})
    \cup {ConstraintsNull, ConstraintsUnknown, ValueType}

\* The attr.Type values handed to ConstraintsType.Equal.
Types == {ConstraintsType, StringType, [kind |-> "BoolType"]}

-----------------------------------------------------------------------------
(* State: the call in progress (op, arg), the ConstraintsValue at hand      *)
(* (recv), what the call returned (ret) and the texts it handed to           *)
(* constraints.Parse.  The host framework makes one call at a time and drops *)
(* its results before the next one (Return).                                 *)

NoRet == [kind |-> "none"]

Init ==
    /\ op = "idle"
    /\ arg = Nil
    /\ recv = ValueType
    /\ ret = NoRet
    /\ parsed = <<>>

\* A constructor's result becomes the value at hand when it is usable.
Keep(v) == IF v = Nil THEN recv ELSE v

DoValidate ==
    \E in \in WireValues :
        LET r == Validate(in) IN
        /\ op = "idle"
        /\ op' = "Validate"
        /\ arg' = in
        /\ ret' = [kind |-> "diags", diags |-> r.diags]
        /\ parsed' = r.parsed
        /\ UNCHANGED recv

DoValueFromString ==
    \E in \in StringValues :
        LET r == ValueFromString(in) IN
        /\ op = "idle"
        /\ op' = "ValueFromString"
        /\ arg' = in
        /\ ret' = [kind |-> "value", value |-> r.value, diags |-> r.diags]
        /\ parsed' = r.parsed
        /\ recv' = Keep(r.value)

DoValueFromTerraform ==
    \E in \in WireValues :
        LET r == ValueFromTerraform(in) IN
        /\ op = "idle"
        /\ op' = "ValueFromTerraform"
        /\ arg' = in
        /\ ret' = [kind |-> "valueerr", value |-> r.value, err |-> r.err]
        /\ parsed' = r.parsed
        /\ recv' = Keep(r.value)

DoGetConstraintsValue ==
    \E s \in Inputs :
        LET r == GetConstraintsValue(s) IN
        /\ op = "idle"
        /\ op' = "GetConstraintsValue"
        /\ arg' = NewStringValue(s)
        /\ ret' = [kind |-> "value", value |-> r.value, diags |-> r.diags]
        /\ parsed' = r.parsed
        /\ recv' = Keep(r.value)

DoConstraintsNull ==
    /\ op = "idle"
    /\ op' = "ConstraintsNull"
    /\ arg' = Nil
    /\ ret' = [kind |-> "value", value |-> ConstraintsNull, diags |-> <<>>]
    /\ parsed' = <<>>
    /\ recv' = ConstraintsNull

DoConstraintsUnknown ==
    /\ op = "idle"
    /\ op' = "ConstraintsUnknown"
    /\ arg' = Nil
    /\ ret' = [kind |-> "value", value |-> ConstraintsUnknown, diags |-> <<>>]
    /\ parsed' = <<>>
    /\ recv' = ConstraintsUnknown

DoValueType ==
    /\ op = "idle"
    /\ op' = "ValueType"
    /\ arg' = Nil
    /\ ret' = [kind |-> "value", value |-> ValueType, diags |-> <<>>]
    /\ parsed' = <<>>
    /\ recv' = ValueType

DoEqual ==
    \E o \in StringValues \cup ConstraintsValues \cup {BoolValue} :
        LET r == Equal(recv, o) IN
        /\ op = "idle"
        /\ op' = "Equal"
        /\ arg' = o
        /\ ret' = [kind |-> "bool", bool |-> r.bool]
        /\ parsed' = r.parsed
        /\ UNCHANGED recv

DoString ==
    /\ op = "idle"
    /\ op' = "String"
    /\ arg' = Nil
    /\ ret' = [kind |-> "str", str |-> String(recv)]
    /\ parsed' = <<>>
    /\ UNCHANGED recv

DoType ==
    /\ op = "idle"
    /\ op' = "Type"
    /\ arg' = Nil
    /\ ret' = [kind |-> "type", type |-> Type(recv)]
    /\ parsed' = <<>>
    /\ UNCHANGED recv

DoTypeEqual ==
    \E o \in Types \cup {Type(recv)} :
        /\ op = "idle"
        /\ op' = "TypeEqual"
        /\ arg' = o
        /\ ret' = [kind |-> "bool", bool |-> TypeEqual(ConstraintsType, o)]
        /\ parsed' = <<>>
        /\ UNCHANGED recv

DoTypeString ==
    /\ op = "idle"
    /\ op' = "TypeString"
    /\ arg' = Nil
    /\ ret' = [kind |-> "str", str |-> TypeString(ConstraintsType)]
    /\ parsed' = <<>>
    /\ UNCHANGED recv

\* The call returns and the host framework drops everything but the value.
Return ==
    /\ op # "idle"
    /\ op' = "idle"
    /\ arg' = Nil
    /\ ret' = NoRet
    /\ parsed' = <<>>
    /\ UNCHANGED recv

Next ==
    \/ DoValidate
    \/ DoValueFromString
    \/ DoValueFromTerraform
    \/ DoGetConstraintsValue
    \/ DoConstraintsNull
    \/ DoConstraintsUnknown
    \/ DoValueType
    \/ DoEqual
    \/ DoString
    \/ DoType
    \/ DoTypeEqual
    \/ DoTypeString
    \/ Return

Spec == Init /\ [][Next]_vars

-----------------------------------------------------------------------------
(* Properties *)

\* The operations that return a ConstraintsValue.
Constructors ==
    {"ValueFromString", "ValueFromTerraform", "GetConstraintsValue",
     "ConstraintsNull", "ConstraintsUnknown", "ValueType"}

\* The StringValue a wire value stands for: unknown, null or its content.
WireToString(in) ==
    IF in.state = "unknown" THEN NewStringUnknown
    ELSE IF in.state = "null" THEN NewStringNull
    ELSE NewStringValue(in.value)

\* C1: a ConstraintsValue built from a known string s1 is Equal to a plain
\* known StringValue holding s2 exactly when s2 parses and parse(s2) equals
\* parse(s1).
C1_CrossShapeEquality ==
    (op = "Equal" /\ recv.StringValue.state = "known"
        /\ arg.kind = "StringValue" /\ arg.state = "known")
    => ret.bool = (/\ ~Parse(arg.value).err
                   /\ Parse(arg.value).cons = Parse(recv.StringValue.value).cons)

\* C2: for every known string that is valid in the grammar, ValueFromString
\* returns no diagnostics and a known ConstraintsValue that stores
\* format(parse(s)), whose Constraints is parse(s) and whose String() is that
\* canonical form.
C2_CanonicalOnConstruction ==
    (op = "ValueFromString" /\ arg.state = "known" /\ ~Parse(arg.value).err)
    => LET c == Parse(arg.value).cons IN
       /\ ret.diags = <<>>
       /\ ret.value = [kind |-> "ConstraintsValue",
                       StringValue |-> NewStringValue(ValueString(c)),
                       Constraints |-> c]
       /\ String(ret.value) = ValueString(c)

\* C3: Validate returns no diagnostics for every known string wire value
\* whose content parses, and the text it hands to the parser is that content.
C3_ValidateAcceptsValid ==
    (op = "Validate" /\ arg.typ = "String" /\ arg.state = "known"
        /\ ~Parse(arg.value).err)
    => (ret.diags = <<>> /\ parsed = <<arg.value>>)

\* C4: on a null or unknown input Validate and ValueFromString return no
\* diagnostics and never call the parser; ValueFromString returns the null
\* ConstraintsValue for null and the unknown one for unknown.
C4_NullUnknownPermissive ==
    /\ (op = "Validate" /\ arg.state \in {"null", "unknown"})
       => (ret.diags = <<>> /\ parsed = <<>>)
    /\ (op = "ValueFromString" /\ arg.state = "null")
       => (ret.value = ConstraintsNull /\ ret.diags = <<>> /\ parsed = <<>>)
    /\ (op = "ValueFromString" /\ arg.state = "unknown")
       => (ret.value = ConstraintsUnknown /\ ret.diags = <<>> /\ parsed = <<>>)

C4_Witness ==
    /\ op = "ValueFromString"
    /\ arg.state = "null"
    /\ ret.value = ConstraintsNull
    /\ recv.StringValue.state = "null"

\* C5: for a known string that violates the grammar Validate returns exactly
\* one attribute-scoped error diagnostic and ValueFromString returns nil with
\* exactly one error diagnostic; neither ever returns two diagnostics.
C5_StrictKnownValidation ==
    /\ op \in {"Validate", "ValueFromString"} => Len(ret.diags) <= 1
    /\ (op = "Validate" /\ arg.typ = "String" /\ arg.state = "known"
           /\ Parse(arg.value).err)
       => /\ Len(ret.diags) = 1
          /\ ret.diags[1].severity = "error"
          /\ ret.diags[1].path
    /\ (op = "ValueFromString" /\ arg.state = "known" /\ Parse(arg.value).err)
       => /\ ret.value = Nil
          /\ Len(ret.diags) = 1
          /\ ret.diags[1].severity = "error"

C5_Witness ==
    /\ op = "Validate"
    /\ arg.typ = "String"
    /\ arg.state = "known"
    /\ arg.value = <<"mem", "=", "-", "1">>
    /\ Len(ret.diags) = 1

\* C6: Equal always returns a boolean; it returns false when the operand is
\* neither a ConstraintsValue nor a StringValue, and false when the operand
\* is a plain StringValue whose content does not parse.
C6_EqualTotalUnparseableUnequal ==
    op = "Equal"
    => /\ ret.bool \in BOOLEAN
       /\ arg.kind \notin {"ConstraintsValue", "StringValue"} => ret.bool = FALSE
       /\ (arg.kind = "StringValue" /\ arg.state = "known" /\ Parse(arg.value).err)
          => ret.bool = FALSE

\* C7 as stated: ValueFromTerraform returns an error and nil exactly when the
\* wire value is not string-shaped or ValueFromString on the adapted string
\* reports an error; otherwise it returns what ValueFromString returns.
C7_DelegatesAsStated ==
    op = "ValueFromTerraform"
    => LET fails == \/ arg.typ # "String"
                    \/ HasError(ValueFromString(WireToString(arg)).diags)
       IN /\ (ret.err /\ ret.value = Nil) <=> fails
          /\ ~fails => (~ret.err /\ ret.value = ValueFromString(WireToString(arg)).value)

\* C7 amended: ValueFromTerraform returns an error and nil exactly when the
\* wire value is known, non-null and not string-shaped, or ValueFromString on
\* the adapted string reports an error; otherwise (null and unknown wire
\* values of any shape included) it returns what ValueFromString returns.
C7_Delegates ==
    op = "ValueFromTerraform"
    => LET fails == \/ (arg.state = "known" /\ arg.typ # "String")
                    \/ HasError(ValueFromString(WireToString(arg)).diags)
       IN /\ (ret.err /\ ret.value = Nil) <=> fails
          /\ ~fails => (~ret.err /\ ret.value = ValueFromString(WireToString(arg)).value)

C7_Witness ==
    /\ op = "ValueFromTerraform"
    /\ arg.typ = "Number"
    /\ arg.state = "unknown"
    /\ ~ret.err
    /\ ret.value = ConstraintsUnknown

\* C8: ConstraintsType.Equal is true for every ConstraintsType operand, the
\* one returned by a value's Type() included, and false for every other
\* type; String() is the same for every descriptor.
C8_TypeIdentity ==
    /\ op = "TypeEqual" => ret.bool = (arg.kind = "ConstraintsType")
    /\ op = "TypeString" => ret.str = <<"ConstraintsType">>
    /\ op = "Type"
       => /\ TypeEqual(ConstraintsType, ret.type)
          /\ TypeEqual(ret.type, ConstraintsType)
          /\ TypeString(ret.type) = TypeString(ConstraintsType)

C8_Witness ==
    /\ op = "TypeEqual"
    /\ recv.StringValue.state = "known"
    /\ arg = Type(recv)
    /\ ret.bool

\* C9: every value a constructor returns, and so every value at hand, has
\* Constraints equal to the parse of its string when it is known and empty
\* Constraints when it is null or unknown; an input that fails to parse never
\* yields a known value: GetConstraintsValue returns the unknown value with
\* one error diagnostic and ValueFromString returns nil.
C9_RepresentationParsed ==
    /\ recv.StringValue.state = "known"
       => /\ ~Parse(recv.StringValue.value).err
          /\ recv.Constraints = Parse(recv.StringValue.value).cons
    /\ recv.StringValue.state # "known" => recv.Constraints = EmptyValue
    /\ (op \in Constructors /\ ret.value # Nil)
       => /\ ret.value.kind = "ConstraintsValue"
          /\ ret.value.StringValue.state = "known"
             => /\ ~Parse(ret.value.StringValue.value).err
                /\ ret.value.Constraints = Parse(ret.value.StringValue.value).cons
          /\ ret.value.StringValue.state # "known"
             => ret.value.Constraints = EmptyValue
    /\ (op = "GetConstraintsValue" /\ Parse(arg.value).err)
       => /\ ret.value = ConstraintsUnknown
          /\ Len(ret.diags) = 1
          /\ ret.diags[1].severity = "error"
    /\ (op = "ValueFromString" /\ arg.state = "known" /\ Parse(arg.value).err)
       => ret.value = Nil
    /\ (op = "ValueFromTerraform" /\ arg.typ = "String" /\ arg.state = "known"
           /\ Parse(arg.value).err)
       => ret.value = Nil

C9_Witness ==
    /\ op = "GetConstraintsValue"
    /\ ret.value.StringValue.state = "known"
    /\ ret.value.Constraints = [cores |-> <<2>>, mem |-> <<4096>>]
    /\ recv = ret.value

\* C10: between ConstraintsValues, Equal is false whenever the two are in
\* different states (null, unknown, known), and for two known values it is
\* true exactly when their Constraints are equal.
C10_EqualKeepsStatesDistinct ==
    (op = "Equal" /\ arg.kind = "ConstraintsValue")
    => /\ recv.StringValue.state # arg.StringValue.state => ret.bool = FALSE
       /\ (recv.StringValue.state = "known" /\ arg.StringValue.state = "known")
          => ret.bool = (recv.Constraints = arg.Constraints)
====
